---- MODULE Spec2Model ----
(***************************************************************************)
(* Model of columnq's Arrow IPC file loader, to_mem_table                  *)
(* (columnq/src/table/arrow_ipc_file.rs).                                  *)
(*                                                                         *)
(* One load of one table source is modelled: every partition is decoded    *)
(* by the closure of lines 18-27, the table schema is resolved by the      *)
(* match of lines 31-42 and the table is built by MemTable::try_new at     *)
(* lines 44-50.  Schema metadata is not modelled; field names are unique   *)
(* inside one schema.                                                      *)
(***************************************************************************)
EXTENDS Integers, Sequences, FiniteSets, TLC

\* Bounds of the model.
MaxParts == 2
MaxBatches == 2

\* Rows of every batch of the test file uk_cities_with_headers.arrow.
BatchRows == 37

None == [some |-> FALSE]
Some(x) == [some |-> TRUE, val |-> x]

Ok(x) == [ok |-> TRUE, val |-> x]
Err(kind) == [ok |-> FALSE, kind |-> kind]

(***************************************************************************)
(* Data: arrow Field / Schema / RecordBatch and columnq's TableSchema.     *)
(***************************************************************************)
Field(name, data_type, nullable) ==
    [name |-> name, data_type |-> data_type, nullable |-> nullable]

Schema(fields) == [fields |-> fields]

SchemaEmpty == Schema(<< >>)

CitySchema ==
    Schema(<< Field("name", "Utf8", FALSE), Field("population", "Int64", FALSE) >>)

NullableCitySchema ==
    Schema(<< Field("name", "Utf8", FALSE), Field("population", "Int64", TRUE) >>)

NameOnlySchema == Schema(<< Field("name", "Utf8", FALSE) >>)

ConflictSchema ==
    Schema(<< Field("name", "Utf8", FALSE), Field("population", "Utf8", FALSE) >>)

EmbeddedSchemas == {CitySchema, NullableCitySchema, NameOnlySchema, ConflictSchema}

\* t.schema: the user-supplied override in its external representation.
TableColumn(name, data_type, nullable) ==
    [name |-> name, data_type |-> data_type, nullable |-> nullable]

TableSchema(columns) == [columns |-> columns]

CityTableSchema ==
    TableSchema(<< TableColumn("name", "Utf8", FALSE),
                   TableColumn("population", "Int64", FALSE) >>)

NameOnlyTableSchema == TableSchema(<< TableColumn("name", "Utf8", FALSE) >>)

OverrideSchemas == {CityTableSchema, NameOnlyTableSchema}

\* `s.into()` of line 32: one arrow Field per column, in column order.
SchemaFromTableSchema(s) ==
    Schema([k \in 1..Len(s.columns) |->
               Field(s.columns[k].name, s.columns[k].data_type, s.columns[k].nullable)])

RecordBatch(schema, p, j) ==
    [schema |-> schema, num_rows |-> BatchRows, origin |-> << p, j >>]

(***************************************************************************)
(* The partition files.  A file has a header (readable or not), an         *)
(* embedded schema and a stream of batches, each decodable or corrupt.     *)
(* A file whose decode fails yields no schema, so one schema stands for    *)
(* all its variants.                                                       *)
(***************************************************************************)
GoodStreams == UNION {[1..n -> {"ok"}] : n \in 0..MaxBatches}

AllStreams == UNION {[1..n -> {"ok", "corrupt"}] : n \in 0..MaxBatches}

ArrowFile(header_ok, schema, stream) ==
    [header_ok |-> header_ok, schema |-> schema, stream |-> stream]

Files ==
    {ArrowFile(FALSE, CitySchema, << >>)}
    \cup {ArrowFile(TRUE, s, b) : s \in EmbeddedSchemas, b \in GoodStreams}
    \cup {ArrowFile(TRUE, CitySchema, b) : b \in AllStreams \ GoodStreams}

VARIABLES
    t,                      \* the TableSource: schema override and partitions
    schema_and_partitions,  \* one (Option<Schema>, Vec<RecordBatch>) per partition
    decoded,                \* partitions whose decode has completed
    out_of_order,           \* a decode completed before an earlier partition's
    schema_ref,             \* Option: the resolved schema
    merge_input,            \* Option: the argument Schema::try_merge was called with
    result,                 \* Option: the Result to_mem_table returned
    pc

vars == << t, schema_and_partitions, decoded, out_of_order, schema_ref,
           merge_input, result, pc >>

NumParts == Len(t.partitions)

(***************************************************************************)
(* Partition Reader: the closure of lines 18-27.                           *)
(***************************************************************************)
RECURSIVE CollectBatches(_, _, _, _)
\* .map(|batch| Ok(batch?)).collect::<Result<Vec<RecordBatch>, _>>():
\* the first batch that fails to decode makes the whole collect an Err.
CollectBatches(f, p, j, acc) ==
    IF j > Len(f.stream) THEN Ok(acc)
    ELSE IF f.stream[j] = "corrupt" THEN Err("decode")
    ELSE CollectBatches(f, p, j + 1, Append(acc, RecordBatch(f.schema, p, j)))

RECURSIVE SkipBadBatches(_, _, _, _)
\* A best-effort collect that drops the batches that fail to decode.
SkipBadBatches(f, p, j, acc) ==
    IF j > Len(f.stream) THEN Ok(acc)
    ELSE IF f.stream[j] = "corrupt" THEN SkipBadBatches(f, p, j + 1, acc)
    ELSE SkipBadBatches(f, p, j + 1, Append(acc, RecordBatch(f.schema, p, j)))

DecodeBestEffort(f, p) ==
    IF ~f.header_ok THEN Ok(<< None, << >> >>)
    ELSE Ok(<< Some(f.schema), SkipBadBatches(f, p, 1, << >>).val >>)

DecodeFile(f, p) ==
    IF ~f.header_ok THEN Err("decode")
    ELSE LET batches == CollectBatches(f, p, 1, << >>)
         IN  IF batches.ok THEN Ok(<< Some(f.schema), batches.val >>)
             ELSE batches

(***************************************************************************)
(* Schema Reconciler: lines 31-42.                                         *)
(***************************************************************************)
\* arrow Field::try_merge: same name, the types must agree, nullable widens.
FieldKeepFirst(merged_field, from) == Ok(merged_field)

FieldTryMerge(merged_field, from) ==
    IF merged_field.data_type # from.data_type THEN Err("merge")
    ELSE Ok([merged_field EXCEPT !.nullable = @ \/ from.nullable])

\* The inner loops of Schema::try_merge for one incoming field.
MergeField(fields, field) ==
    LET same == {k \in 1..Len(fields) : fields[k].name = field.name}
    IN  IF \E k \in same : ~FieldTryMerge(fields[k], field).ok THEN Err("merge")
        ELSE IF same = {} THEN Ok(Append(fields, field))
        ELSE Ok([k \in 1..Len(fields) |->
                    IF k \in same THEN FieldTryMerge(fields[k], field).val
                    ELSE fields[k]])

RECURSIVE MergeFields(_, _, _)
MergeFields(fields, incoming, k) ==
    IF k > Len(incoming) THEN Ok(fields)
    ELSE LET r == MergeField(fields, incoming[k])
         IN  IF r.ok THEN MergeFields(r.val, incoming, k + 1) ELSE r

RECURSIVE FoldMerge(_, _, _)
FoldMerge(merged, schemas, k) ==
    IF k > Len(schemas) THEN Ok(merged)
    ELSE LET r == MergeFields(merged.fields, schemas[k].fields, 1)
         IN  IF r.ok THEN FoldMerge(Schema(r.val), schemas, k + 1) ELSE r

RECURSIVE ConcatFields(_, _)
ConcatFields(schemas, k) ==
    IF k > Len(schemas) THEN << >>
    ELSE schemas[k].fields \o ConcatFields(schemas, k + 1)

\* A merge that appends every incoming field.
TryMergeConcat(schemas) == Ok(Schema(ConcatFields(schemas, 1)))

\* A merge that reduces from the first schema and has no result on no input.
TryMergeReduce(schemas) ==
    IF Len(schemas) = 0 THEN Err("merge")
    ELSE FoldMerge(schemas[1], schemas, 2)

\* Schema::try_merge: a fold from Schema::empty().
TryMerge(schemas) == FoldMerge(SchemaEmpty, schemas, 1)

RECURSIVE SchemasFrom(_, _, _)
\* flat_map over the vector: a partition holding no batch contributes its
\* schema only when with_empty is set.
SchemasFrom(sp, k, with_empty) ==
    IF k > Len(sp) THEN << >>
    ELSE (IF (with_empty \/ Len(sp[k][2]) # 0) /\ sp[k][1].some
          THEN << sp[k][1].val >> ELSE << >>)
         \o SchemasFrom(sp, k + 1, with_empty)

\* Every partition's schema, empty partitions included.
AllSchemas(sp) == SchemasFrom(sp, 1, TRUE)

\* Lines 36-39: the schemas of the partitions that hold at least one batch.
InferenceSet(sp) == SchemasFrom(sp, 1, FALSE)

\* v.0.take() of line 38 leaves None in the slots the inference set took from.
AfterTake(sp) ==
    [k \in 1..Len(sp) |->
        IF Len(sp[k][2]) # 0 THEN << None, sp[k][2] >> ELSE sp[k]]

\* The outcome of the match of lines 31-42: the schema (or the merge error),
\* the argument given to try_merge if it was called, and the vector as the
\* iter_mut() left it.
\* A resolver that merges the override with the partitions' schemas.
ResolveAlwaysMerge(override, sp) ==
    LET set == (IF override.some THEN << SchemaFromTableSchema(override.val) >>
                ELSE << >>) \o InferenceSet(sp)
    IN  [schema |-> TryMerge(set), merge_input |-> Some(set), sp |-> AfterTake(sp)]

ResolveSchema(override, sp) ==
    IF override.some
    THEN [schema |-> Ok(SchemaFromTableSchema(override.val)),
          merge_input |-> None, sp |-> sp]
    ELSE [schema |-> TryMerge(InferenceSet(sp)),
          merge_input |-> Some(InferenceSet(sp)), sp |-> AfterTake(sp)]

(***************************************************************************)
(* Table Assembler: lines 44-50.                                           *)
(***************************************************************************)
\* arrow Field::contains and Schema::contains, as MemTable::try_new uses them.
FieldContains(f, other) ==
    /\ f.name = other.name
    /\ f.data_type = other.data_type
    /\ (f.nullable \/ ~other.nullable)

SchemaContains(schema, other) ==
    /\ Len(schema.fields) = Len(other.fields)
    /\ \A k \in 1..Len(schema.fields) : FieldContains(schema.fields[k], other.fields[k])

MemTable(schema, batches) == [schema |-> schema, batches |-> batches]

\* A constructor that accepts every pairing.
MemTableNewUnchecked(schema, partitions) == Ok(MemTable(schema, partitions))

\* MemTable::try_new: every batch's schema must be contained in the table's.
MemTableTryNew(schema, partitions) ==
    IF \A p \in 1..Len(partitions) : \A j \in 1..Len(partitions[p]) :
           SchemaContains(schema, partitions[p][j].schema)
    THEN Ok(MemTable(schema, partitions))
    ELSE Err("construct")

\* Keeps only the partitions that hold batches.
RECURSIVE NonEmptyPartitions(_)
NonEmptyPartitions(sp) ==
    IF Len(sp) = 0 THEN << >>
    ELSE (IF Len(sp[1][2]) # 0 THEN << sp[1][2] >> ELSE << >>)
         \o NonEmptyPartitions(Tail(sp))

\* Lines 46-49: .into_iter().map(|v| v.1).collect()
Partitions(sp) == [k \in 1..Len(sp) |-> sp[k][2]]

(***************************************************************************)
(* The load as a state machine.                                            *)
(***************************************************************************)
TableSources ==
    {[schema |-> o, partitions |-> fs] :
        o \in {None} \cup {Some(s) : s \in OverrideSchemas},
        fs \in UNION {[1..n -> Files] : n \in 0..MaxParts}}

Init ==
    /\ t \in TableSources
    /\ schema_and_partitions = [k \in 1..Len(t.partitions) |-> << None, << >> >>]
    /\ decoded = {}
    /\ out_of_order = FALSE
    /\ schema_ref = None
    /\ merge_input = None
    /\ result = None
    /\ pc = "decode"

\* The enumerate-and-decode loop keeps each partition's result at the
\* partition's ordinal, whatever the order the decodes complete in.
PlaceAt(sp, i, v) == [sp EXCEPT ![i] = v]

\* The decodes are independent and may complete in any order.
DecodeOk(i) ==
    /\ pc = "decode"
    /\ i \in DOMAIN t.partitions
    /\ i \notin decoded
    /\ DecodeFile(t.partitions[i], i).ok
    /\ schema_and_partitions' =
           PlaceAt(schema_and_partitions, i, DecodeFile(t.partitions[i], i).val)
    /\ decoded' = decoded \cup {i}
    /\ out_of_order' = (out_of_order \/ \E j \in 1..(i - 1) : j \notin decoded)
    /\ UNCHANGED << t, schema_ref, merge_input, result, pc >>

\* One failed decode fails the load (the `?` of line 29).
DecodeErr(i) ==
    /\ pc = "decode"
    /\ i \in DOMAIN t.partitions
    /\ i \notin decoded
    /\ ~DecodeFile(t.partitions[i], i).ok
    /\ result' = Some(DecodeFile(t.partitions[i], i))
    /\ pc' = "done"
    /\ UNCHANGED << t, schema_and_partitions, decoded, out_of_order, schema_ref,
                    merge_input >>

\* The loop hands the vector over once every partition has been decoded.
AllDecoded == decoded = DOMAIN t.partitions

Join ==
    /\ pc = "decode"
    /\ AllDecoded
    /\ pc' = "reconcile"
    /\ UNCHANGED << t, schema_and_partitions, decoded, out_of_order, schema_ref,
                    merge_input, result >>

ReconcileFrom(allowed) ==
    /\ pc \in allowed
    /\ LET r == ResolveSchema(t.schema, schema_and_partitions)
       IN  /\ merge_input' = r.merge_input
           /\ schema_and_partitions' = r.sp
           /\ IF r.schema.ok
              THEN /\ schema_ref' = Some(r.schema.val)
                   /\ pc' = "assemble"
                   /\ UNCHANGED result
              ELSE /\ result' = Some(r.schema)
                   /\ pc' = "done"
                   /\ UNCHANGED schema_ref
    /\ UNCHANGED << t, decoded, out_of_order >>

\* A reconciler that does not wait for the decodes to be joined.
ReconcileEarly == ReconcileFrom({"decode", "reconcile"})

Reconcile == ReconcileFrom({"reconcile"})

\* An assembler that answers a rejected pairing with an empty table.
AssembleSwallow ==
    /\ pc = "assemble"
    /\ LET r == MemTableTryNew(schema_ref.val, Partitions(schema_and_partitions))
       IN  result' = Some(IF r.ok THEN r ELSE Ok(MemTable(schema_ref.val, << >>)))
    /\ pc' = "done"
    /\ UNCHANGED << t, schema_and_partitions, decoded, out_of_order, schema_ref,
                    merge_input >>

Assemble ==
    /\ pc = "assemble"
    /\ result' = Some(MemTableTryNew(schema_ref.val, Partitions(schema_and_partitions)))
    /\ pc' = "done"
    /\ UNCHANGED << t, schema_and_partitions, decoded, out_of_order, schema_ref,
                    merge_input >>

Next ==
    \/ \E i \in 1..MaxParts : DecodeOk(i)
    \/ \E i \in 1..MaxParts : DecodeErr(i)
    \/ Join
    \/ Reconcile
    \/ Assemble

Spec == Init /\ [][Next]_vars

(***************************************************************************)
(* Properties.                                                             *)
(***************************************************************************)
Succeeded == result.some /\ result.val.ok

Failed(kind) == result.some /\ ~result.val.ok /\ result.val.kind = kind

Table == result.val.val

Decodable(f) == f.header_ok /\ \A j \in 1..Len(f.stream) : f.stream[j] = "ok"

AllDecodable == \A i \in 1..NumParts : Decodable(t.partitions[i])

NoOverride == ~t.schema.some

NonEmpty(i) == Len(t.partitions[i].stream) # 0

\* The same field name with different types in partitions i and j.
ConflictPair(i, j) ==
    /\ i # j
    /\ \E a \in 1..Len(t.partitions[i].schema.fields) :
       \E b \in 1..Len(t.partitions[j].schema.fields) :
          /\ t.partitions[i].schema.fields[a].name = t.partitions[j].schema.fields[b].name
          /\ t.partitions[i].schema.fields[a].data_type
                 # t.partitions[j].schema.fields[b].data_type

\* The schema has exactly the columns of the override, in order.
EqualsOverride(schema) ==
    /\ Len(schema.fields) = Len(t.schema.val.columns)
    /\ \A k \in 1..Len(schema.fields) :
          /\ schema.fields[k].name = t.schema.val.columns[k].name
          /\ schema.fields[k].data_type = t.schema.val.columns[k].data_type
          /\ schema.fields[k].nullable = t.schema.val.columns[k].nullable

RemoveAt(seq, i) == SubSeq(seq, 1, i - 1) \o SubSeq(seq, i + 1, Len(seq))

RECURSIVE TotalRows(_)
TotalRows(parts) ==
    IF Len(parts) = 0 THEN 0
    ELSE (IF Len(parts[1]) = 0 THEN 0
          ELSE parts[1][1].num_rows + TotalRows(<< Tail(parts[1]) >>))
         + TotalRows(Tail(parts))

RECURSIVE StreamRows(_)
StreamRows(fs) ==
    IF Len(fs) = 0 THEN 0 ELSE BatchRows * Len(fs[1].stream) + StreamRows(Tail(fs))

\* C1: when the table source carries a schema override and the load succeeds,
\* the table's schema is the override, column for column; Schema::try_merge is
\* never called and no partition's schema is taken from its slot.
OverridePrecedence ==
    (t.schema.some /\ Succeeded) =>
        /\ EqualsOverride(Table.schema)
        /\ merge_input = None
        /\ \A k \in 1..NumParts :
              schema_and_partitions[k][1] = Some(t.partitions[k].schema)

OverridePrecedenceWitness ==
    /\ t.schema.some
    /\ Succeeded
    /\ \E i, j \in 1..NumParts : ConflictPair(i, j) /\ NonEmpty(i)

\* C2: with no override, the outcome of schema inference (the schema, or the
\* merge failure) is the outcome of inference over the same partitions with
\* any one zero-batch partition removed.
EmptyPartitionExclusion ==
    (NoOverride /\ merge_input.some) =>
        \A i \in 1..NumParts :
            ~NonEmpty(i) =>
                LET all == [k \in 1..NumParts |-> DecodeFile(t.partitions[k], k).val]
                    r   == TryMerge(InferenceSet(RemoveAt(all, i)))
                IN  /\ r.ok <=> schema_ref.some
                    /\ r.ok => r.val = schema_ref.val
                    /\ ~r.ok => Failed("merge")

EmptyPartitionExclusionWitness ==
    /\ NoOverride
    /\ schema_ref.some
    /\ \E i, j \in 1..NumParts : ConflictPair(i, j) /\ ~NonEmpty(i) /\ NonEmpty(j)

\* C3: a successful load yields one slot per partition, slot k holding exactly
\* partition k's batches in decode order (an empty partition an empty slot),
\* so the table's rows are the sum of the partitions' rows, whatever order the
\* decodes completed in.
OrderPreservation ==
    Succeeded =>
        /\ Len(Table.batches) = NumParts
        /\ \A k \in 1..NumParts :
              /\ Len(Table.batches[k]) = Len(t.partitions[k].stream)
              /\ \A j \in 1..Len(Table.batches[k]) :
                    /\ Table.batches[k][j].origin = << k, j >>
                    /\ Table.batches[k][j].schema = t.partitions[k].schema
                    /\ Table.batches[k][j].num_rows = BatchRows
        /\ TotalRows(Table.batches) = StreamRows(t.partitions)

OrderPreservationWitness ==
    /\ Succeeded
    /\ out_of_order
    /\ \E i, j \in 1..NumParts : ~NonEmpty(i) /\ Len(t.partitions[j].stream) > 1

\* C4 as stated: with no override and every partition decodable, any two
\* partitions that give one field name different types make the load fail
\* with a merge conflict.
ConflictDetectionAnyPair ==
    (pc = "done" /\ NoOverride /\ AllDecodable
        /\ \E i, j \in 1..NumParts : ConflictPair(i, j))
    => Failed("merge")

\* C4 amended: with no override and every partition decodable, any two
\* partitions that each hold at least one batch and give one field name
\* different types make inference fail with a merge conflict; no schema is
\* resolved and the table constructor is never reached.
ConflictDetection ==
    (NoOverride /\ AllDecodable
        /\ \E i, j \in 1..NumParts : ConflictPair(i, j) /\ NonEmpty(i) /\ NonEmpty(j))
    => /\ schema_ref = None
       /\ pc # "assemble"
       /\ ~Succeeded
       /\ pc = "done" => Failed("merge")

ConflictDetectionWitness ==
    /\ NoOverride
    /\ \E i, j \in 1..NumParts : ConflictPair(i, j) /\ NonEmpty(i) /\ NonEmpty(j)
    /\ Failed("merge")

\* C5: if any partition cannot be decoded (unreadable header, or a corrupt
\* batch at any position), the load ends in a decode failure; the reconciler
\* and the table constructor never run and no table is returned.
DecodeFailureIsFatal ==
    (\E i \in 1..NumParts : ~Decodable(t.partitions[i])) =>
        /\ schema_ref = None
        /\ merge_input = None
        /\ pc \notin {"reconcile", "assemble"}
        /\ ~Succeeded
        /\ pc = "done" => Failed("decode")

DecodeFailureIsFatalWitness ==
    /\ Failed("decode")
    /\ decoded # {}
    /\ \E i \in 1..NumParts :
          /\ t.partitions[i].header_ok
          /\ Len(t.partitions[i].stream) = 2
          /\ t.partitions[i].stream[1] = "ok"
          /\ t.partitions[i].stream[2] = "corrupt"

\* Every partition's embedded schema has a field the override leaves out.
OverrideOmitsField ==
    /\ t.schema.some
    /\ NumParts > 0
    /\ \A i \in 1..NumParts :
          \E a \in 1..Len(t.partitions[i].schema.fields) :
             \A c \in 1..Len(t.schema.val.columns) :
                t.schema.val.columns[c].name # t.partitions[i].schema.fields[a].name

SharedSchema(S) ==
    /\ \E i \in 1..NumParts : NonEmpty(i)
    /\ \A i \in 1..NumParts : NonEmpty(i) => t.partitions[i].schema = S

EmptyInference ==
    NoOverride /\ AllDecodable /\ \A i \in 1..NumParts : ~NonEmpty(i)

\* C8 as stated: on an empty inference set the resolved schema is the
\* empty-field schema, and the loader settles the case itself, without
\* calling the merge primitive on an empty input.
EmptyInferenceHandledExplicitly ==
    (EmptyInference /\ pc \in {"assemble", "done"}) =>
        schema_ref = Some(SchemaEmpty) /\ merge_input = None

\* C8 amended: on an empty inference set the resolved schema is the
\* empty-field schema and the load succeeds; the loader passes the empty set
\* to Schema::try_merge and the outcome is that primitive's answer.
EmptyInferenceSet ==
    (EmptyInference /\ pc \in {"assemble", "done"}) =>
        /\ schema_ref = Some(SchemaEmpty)
        /\ merge_input = Some(<< >>)
        /\ pc = "done" => Succeeded /\ Table.schema = SchemaEmpty

EmptyInferenceSetWitness ==
    EmptyInference /\ NumParts > 0 /\ Succeeded

\* Some collected batch's schema is not contained in the resolved schema.
ConstructorRejects ==
    \E p \in 1..NumParts : \E j \in 1..Len(schema_and_partitions[p][2]) :
        ~SchemaContains(schema_ref.val, schema_and_partitions[p][2][j].schema)

\* C9: when the table constructor rejects the resolved schema with the
\* collected batches the load returns that construction error and no table;
\* a table is returned only when every partition decoded, a schema was
\* resolved and the constructor accepted the pairing.
ConstructionFailurePropagated ==
    /\ (pc = "done" /\ schema_ref.some /\ ConstructorRejects) => Failed("construct")
    /\ Succeeded =>
          /\ AllDecodable
          /\ decoded = 1..NumParts
          /\ schema_ref.some
          /\ Table.schema = schema_ref.val
          /\ ~ConstructorRejects

ConstructionFailurePropagatedWitness ==
    NoOverride /\ Failed("construct")

\* C10: the reconciler runs only once every partition has been decoded
\* successfully and its whole batch stream collected, and the table
\* constructor runs only once a schema has been resolved.
JoinBeforeReconcile ==
    /\ (pc \in {"reconcile", "assemble"} \/ schema_ref.some \/ merge_input.some) =>
          /\ AllDecodable
          /\ decoded = 1..NumParts
          /\ \A i \in 1..NumParts :
                Len(schema_and_partitions[i][2]) = Len(t.partitions[i].stream)
    /\ (pc = "assemble" \/ Succeeded \/ Failed("construct")) => schema_ref.some

JoinBeforeReconcileWitness ==
    /\ pc = "assemble"
    /\ out_of_order
    /\ \E i \in 1..NumParts : Len(t.partitions[i].stream) > 1

====
